---- MODULE Spec2Model ----
(***************************************************************************)
(* Ontario-Building-Code-Chat: one Streamlit session running turns of      *)
(* app.process_message against the cached QueryExpander and ChatBot.       *)
(*                                                                         *)
(* Text is modelled as a sequence of atoms (strings); concatenation is \o. *)
(* A passage (corpus chunk) is one atom.  None and "" are both the empty   *)
(* text <<>>: the code only ever tests them for truthiness.                *)
(***************************************************************************)
EXTENDS Integers, Sequences, FiniteSets, TLC

(* ------------------------------ bounds -------------------------------- *)
\* number of distinct passages the vector index holds
NumPassages == 3
\* number of turns one session completes before the history is cleared; the
\* n-th query typed into a history of n-1 turns is QueryPool[n]
MaxTurns == 1
\* number of content deltas the completion service streams in one answer
MaxDeltas == 1

(* ------------------------- program constants -------------------------- *)
MAX_CONTEXT_TOKENS == 100000
N_QUERIES == 4
K == 3

(* ------------------------------ inputs -------------------------------- *)
PassagePool == <<"A", "B", "C", "D", "E", "F">>
Passages == {PassagePool[n] : n \in 1..NumPassages}
QueryPool == <<"q1", "q2", "q3", "q4">>
ExpPool == <<"e1", "e2", "e3", "e4", "e5">>
DeltaPool == <<"r1", "r2", "r3">>

\* what the tokenizer may count for the passages: one table with two
\* passages that fill the budget exactly and one that exceeds it alone, one
\* with passages that fit alone but not together
TokenTable(n) ==
    IF n = 1
    THEN [p \in Passages |->
            CASE p = "A" -> 50000 [] p = "B" -> 50000 [] p = "C" -> 100001
              [] p = "D" -> 60000 [] OTHER -> 0]
    ELSE [p \in Passages |->
            CASE p = "A" -> 60000 [] p = "B" -> 30000 [] p = "C" -> 50000
              [] p = "D" -> 0 [] OTHER -> 100000]

TokenTables == {TokenTable(1), TokenTable(2)}

\* what one vector lookup can return: at most n_results documents, in rank
\* order; two stored chunks may hold the same text
ResultLists(k) == UNION {[1..n -> Passages] : n \in 0..k}

ZeroUsage == [prompt_tokens |-> 0, completion_tokens |-> 0, total_tokens |-> 0]
ServiceUsage == [prompt_tokens |-> 5, completion_tokens |-> 2, total_tokens |-> 7]

(* --------------------------- pure helpers ----------------------------- *)
Contains(s, x) == \E n \in 1..Len(s) : s[n] = x

Front(s) == SubSeq(s, 1, Len(s) - 1)

RECURSIVE Join(_, _)
\* sep.join(list)
Join(list, sep) ==
    IF Len(list) = 0 THEN <<>>
    ELSE IF Len(list) = 1 THEN <<list[1]>>
    ELSE <<list[1], sep>> \o Join(Tail(list), sep)

(* ------------------- QueryExpander.generate --------------------------- *)
\* The expansion service's answer: the call fails, or it returns a message
\* whose content json.loads turns into a value of some JSON kind, with or
\* without a usage record.
JsonList(items) == [kind |-> "list", items |-> items]

ExpanderResponses(q) ==
    {[status |-> "error", json |-> JsonList(<<>>), usage |-> FALSE]}
    \cup {[status |-> "ok", json |-> [kind |-> kd, items |-> <<>>], usage |-> TRUE] :
            kd \in {"invalid", "number"}}
    \cup {[status |-> "ok", json |-> [kind |-> kd, items |-> SubSeq(ExpPool, 1, n)],
           usage |-> u] :
            kd \in {"list", "object", "string"}, n \in 0..(N_QUERIES + 1), u \in BOOLEAN}
    \cup {[status |-> "ok", json |-> JsonList(<<q>>), usage |-> TRUE]}

NoResponse == [status |-> "none", json |-> JsonList(<<>>), usage |-> FALSE]

Fallback(q) == [queries |-> JsonList(<<q>>), usage |-> ZeroUsage]

\* generate without the test of the number of queries
generateAnyCount(q, resp, n_queries) ==
    IF resp.status = "error" THEN Fallback(q)
    ELSE IF resp.json.kind = "invalid" THEN Fallback(q)
    ELSE IF resp.json.kind = "number" THEN Fallback(q)
    ELSE IF ~resp.usage THEN Fallback(q)
    ELSE [queries |-> resp.json, usage |-> ServiceUsage]

\* query_expander.py 68-96
generate(q, resp, n_queries) ==
    IF resp.status = "error" THEN Fallback(q)                 \* create() raises
    ELSE IF resp.json.kind = "invalid" THEN Fallback(q)       \* json.loads raises
    ELSE IF resp.json.kind = "number" THEN Fallback(q)        \* len() raises
    ELSE IF Len(resp.json.items) # n_queries THEN Fallback(q) \* ValueError
    ELSE IF ~resp.usage THEN Fallback(q)                      \* response.usage is None
    ELSE [queries |-> resp.json, usage |-> ServiceUsage]

(* -------------------- ChatBot.generate_system_prompt ------------------ *)
generate_system_prompt(ctx) == <<"SYSTEM_TEMPLATE", "<|context|>">> \o ctx \o <<"<|/context|>">>

Msg(role, content) == [role |-> role, content |-> content]

(* ------------------ content cache and vector index -------------------- *)
EMB_DIM == 1536
DAYS_THRESHOLD == 30
CHUNK_MAX_TOKENS == 2000
CHUNK_OVERLAP_TOKENS == 200

\* the clock runs from 0 to MaxClock half days
MaxClock == 61
\* number of documents a collection found on disk may hold
MaxStored == 2

\* what the site may serve: a page is a text, its line ends are atoms
WebPages == {<<"page v1">>, <<"page v2", "\r\n", "part 2">>}

\* tiktoken's count for the whole page
PageTokens(text) ==
    IF text = <<>> THEN 0
    ELSE IF text[1] = "page v1" THEN 3700
    ELSE 1500

\* data/content/building_code.txt and data/metadata/scrape_info.json
NoFile == [exists |-> FALSE, text |-> <<>>]
File(text) == [exists |-> TRUE, text |-> text]
NoMetadata == [exists |-> FALSE, last_scrape |-> 0]
Metadata(t) == [exists |-> TRUE, last_scrape |-> t]

\* the collection "building_code" of the persisted Chroma client: the
\* collection's metadata may be None, or a dict with or without "dimension"
NoCollection ==
    [exists |-> FALSE, has_metadata |-> FALSE, has_dimension |-> FALSE, dimension |-> 0,
     ids |-> {}]
Collection(dim, ids) ==
    [exists |-> TRUE, has_metadata |-> TRUE, has_dimension |-> TRUE, dimension |-> dim,
     ids |-> ids]

\* ids of the documents add_chunks has stored: chunk_0 .. chunk_{n-1}
ChunkIds(n) == 0..(n - 1)

\* what may lie in data/vector_db when the process starts
PersistedCollections ==
    {NoCollection}
    \cup {[exists |-> TRUE, has_metadata |-> m, has_dimension |-> FALSE, dimension |-> 0,
           ids |-> ChunkIds(n)] : m \in BOOLEAN, n \in 0..MaxStored}
    \cup {Collection(dim, ChunkIds(n)) : dim \in {384, EMB_DIM}, n \in 0..MaxStored}

\* a guard that is content with any dimension entry
DimensionPresent(c) == c.has_dimension

\* database.py 44: metadata.get("dimension") != self.emb_dim is false
DimensionMatches(c) == c.has_dimension /\ c.dimension = EMB_DIM

\* VectorStore.__init__ (database.py 38-52) on the collection c found on
\* disk. Without metadata, .get raises AttributeError; the bare except then
\* calls create_collection for a name that exists, which raises.
VectorStoreInitOn(c) ==
    IF ~c.exists THEN [raised |-> FALSE, collection |-> Collection(EMB_DIM, {})]
    ELSE IF ~c.has_metadata THEN [raised |-> TRUE, collection |-> c]
    ELSE IF ~DimensionMatches(c) THEN [raised |-> FALSE, collection |-> Collection(EMB_DIM, {})]
    ELSE [raised |-> FALSE, collection |-> c]

\* a ChatBot that ingests the corpus at every start
AlwaysEmpty(c) == TRUE

\* chat.py 39: not self.vector_store.collection.count()
IsEmpty(c) == Cardinality(c.ids) = 0

(* ------------------------- chunk_text --------------------------------- *)
Min(a, b) == IF a < b THEN a ELSE b
Max(a, b) == IF a > b THEN a ELSE b

RECURSIVE ChunkLoopNoBreak(_, _, _, _, _)
\* a loop that always runs its n_chunks iterations
ChunkLoopNoBreak(i, n_chunks, n_tokens, max_tokens, step_size) ==
    IF i >= n_chunks THEN <<>>
    ELSE LET start_idx == i * step_size
             end_idx == Min(start_idx + max_tokens, n_tokens)
             chunk == [start |-> start_idx, end |-> end_idx,
                       token_count |-> Max(0, end_idx - start_idx)]
         IN  <<chunk>> \o ChunkLoopNoBreak(i + 1, n_chunks, n_tokens, max_tokens, step_size)

RECURSIVE ChunkLoop(_, _, _, _, _)
\* token_counter.py 81-94: the loop from iteration i on
ChunkLoop(i, n_chunks, n_tokens, max_tokens, step_size) ==
    IF i >= n_chunks THEN <<>>
    ELSE LET start_idx == i * step_size
             end_idx == Min(start_idx + max_tokens, n_tokens)
             chunk == [start |-> start_idx, end |-> end_idx,
                       token_count |-> Max(0, end_idx - start_idx)]
         IN  IF end_idx >= n_tokens THEN <<chunk>>
             ELSE <<chunk>> \o ChunkLoop(i + 1, n_chunks, n_tokens, max_tokens, step_size)

\* token_counter.py 68-96, on a text of n_tokens tokens: the chunks as
\* spans of token indices
ChunkSpans(n_tokens, max_tokens, overlap_tokens) ==
    LET overlap == IF overlap_tokens >= max_tokens THEN max_tokens \div 4 ELSE overlap_tokens
        step_size == max_tokens - overlap
        n_chunks == (n_tokens + step_size - 1) \div step_size
    IN  ChunkLoop(0, n_chunks, n_tokens, max_tokens, step_size)

\* tokens[start:end] of a Python list, for 0 <= start
Slice(tokens, start, end) == SubSeq(tokens, start + 1, Min(end, Len(tokens)))

\* token_counter.py 46-96 on the encoded text: each chunk with the tokens
\* it was decoded from
chunk_text(tokens, max_tokens, overlap_tokens) ==
    LET spans == ChunkSpans(Len(tokens), max_tokens, overlap_tokens)
    IN  [c \in 1..Len(spans) |->
            [chunk_tokens |-> Slice(tokens, spans[c].start, spans[c].end),
             token_count |-> spans[c].token_count,
             start |-> spans[c].start]]

\* scraper.py 115-143
process_content(text) == ChunkSpans(PageTokens(text), CHUNK_MAX_TOKENS, CHUNK_OVERLAP_TOKENS)

(* ------------------------- the content cache -------------------------- *)
\* the line separator of the platform (POSIX)
LineSep == "\n"

\* open(.., 'w', encoding='utf-8').write: "\n" becomes the line separator
TextWrite(text) == [n \in 1..Len(text) |-> IF text[n] = "\n" THEN LineSep ELSE text[n]]

\* open(.., 'r', encoding='utf-8').read: universal newlines turn "\r\n" and
\* "\r" into "\n"
TextRead(text) == [n \in 1..Len(text) |-> IF text[n] \in {"\r\n", "\r"} THEN "\n" ELSE text[n]]

\* what scrape_url does: it raises, or returns a response with or without
\* markdown
WebResponses ==
    {[status |-> "error", markdown |-> <<>>], [status |-> "ok", markdown |-> <<>>]}
    \cup {[status |-> "ok", markdown |-> page] : page \in WebPages}
NoFetch == [status |-> "none", markdown |-> <<>>]

\* a fetch that takes a response without markdown for an empty page
fetch_content_lenient(web) ==
    IF web.status = "error" THEN [raised |-> TRUE, text |-> <<>>]
    ELSE [raised |-> FALSE, text |-> web.markdown]

\* scraper.py 97-113
fetch_content(web) ==
    IF web.status = "error" THEN [raised |-> TRUE, text |-> <<>>]
    ELSE IF web.markdown = <<>> THEN [raised |-> TRUE, text |-> <<>>]
    ELSE [raised |-> FALSE, text |-> web.markdown]

\* content_manager.py 94-122; timedelta.days is the floor of the age in days
needs_update(file, metadata, t) ==
    IF ~metadata.exists \/ ~file.exists THEN TRUE
    ELSE ((t - metadata.last_scrape) \div 2) >= DAYS_THRESHOLD

\* content_manager.py 46-62
load_content(file) == IF file.exists THEN TextRead(file.text) ELSE <<>>

\* scraper.py 41-81 with save_content (content_manager.py 29-44, 64-74):
\* the outcome of get_content(force_update) at time t, when a fetch, if
\* one is made, gets the response web
get_content(force_update, file, metadata, t, web) ==
    LET cached == load_content(file)
        fetched == fetch_content(web)
    IN  IF ~force_update /\ ~needs_update(file, metadata, t) /\ cached # <<>>
        THEN [outcome |-> "returned", text |-> cached, fetches |-> 0, web |-> NoFetch,
              file |-> file, metadata |-> metadata]
        ELSE IF fetched.raised
        THEN [outcome |-> "raised", text |-> <<>>, fetches |-> 1, web |-> web,
              file |-> file, metadata |-> metadata]
        ELSE [outcome |-> "returned", text |-> fetched.text, fetches |-> 1, web |-> web,
              file |-> File(TextWrite(fetched.text)), metadata |-> Metadata(t)]

\* no call of get_content has been made
NoCall ==
    [outcome |-> "none", text |-> <<>>, fetches |-> 0, web |-> NoFetch, force |-> FALSE,
     file |-> NoFile, metadata |-> NoMetadata]

(* ------------------------------ state --------------------------------- *)
VARIABLES
    tokenizer,           \* tiktoken: the token count of each passage
    messages,            \* st.session_state.messages
    last_user_query,     \* ChatBot.last_user_query (cached instance)
    last_model_response, \* ChatBot.last_model_response
    pc,                  \* position of the script run
    query,               \* process_message: query / original_query
    conversation_history,
    expanded_queries,
    query_tokens,
    queries,             \* get_relevant_chunks: [query] + expanded_queries
    i,                   \* get_relevant_chunks: index of the query being looked up
    results,             \* results['documents'][0] of the current lookup
    j,                   \* index of the chunk the inner loop is at
    all_chunks,
    current_tokens,
    chunks,              \* process_message: chunks
    chat_messages,       \* the dicts of the message list handed to chat_stream
    full_response,       \* chat_stream: full_response
    yielded,             \* items chat_stream has yielded
    response,            \* process_message: response
    firstSeen,           \* history: passages of the lookups of this call of
                         \* get_relevant_chunks, first occurrences in order
    lookupLog,           \* history: VectorStore.query calls of this turn, <<text, k>>
    embedLog,            \* history: embedding calls of this turn
    completionLog,       \* history: completion-service calls of this turn
    failedAt,            \* history: where the completion service failed in this turn
    lastResp,            \* history: what the expansion service answered, until the gate
    lookupFailure,       \* history: which call of a lookup raised in this turn
    turnStart,           \* history: st.session_state.messages when the turn began
    wouldFail,           \* environment: the lookup of a turn (1 = the original
                         \* query) the index would refuse, 0 for none; only
                         \* SpecRefine fixes the lookups this way
    boot,                \* position of the process start-up (cached initializers)
    collection,          \* the persisted Chroma collection "building_code"
    content_file,        \* data/content/building_code.txt
    metadata_file,       \* data/metadata/scrape_info.json
    now,                 \* the wall clock, in half days
    content,             \* ChatBot.__init__: content
    gc_result,           \* history: the last call of get_content, if the clock has
                         \* not moved since: its outcome and the cache before it
    addLog,              \* history: the calls of add_chunks of this ChatBot.__init__
    bootLog,             \* history: the collection VectorStore.__init__ found, and
                         \* the document count when ChatBot.__init__ began
    chunking,            \* a call of chunk_text: the encoded text and the arguments
    chunked,             \* what the call returned
    session_state,       \* st.session_state: the keys check_password works with
    chat_state,          \* whether the script has run past the gate in this
                         \* session (app.py 118-146: chat state, ChatBot, expander)
    app_password,        \* os.getenv("APP_PASSWORD")
    openai_api_key,      \* os.environ["OPENAI_API_KEY"]
    gate,                \* where the session is: "start", "prompt" (the script
                         \* stopped at the password prompt), "entered" (the
                         \* callback ran, the script has not yet), "open"
    entries,             \* history: what was entered at the prompt, the app
                         \* password then, and the answer of the key service
    stale,               \* history: a script run has removed a stale
                         \* password_hash and nothing valid was entered since
    nQueries,            \* the n_queries process_message hands to generate
    total_processed_tokens,    \* st.session_state: the token tallies
    total_input_tokens,
    total_output_tokens,
    total_conversation_tokens,
    total_rag_context_tokens,
    turns_begun          \* history: the calls of process_message that were counted

\* token_counter.py 27-44: a function of the text alone
count_tokens(chunk) == tokenizer[chunk]

RECURSIVE text_tokens(_)
\* token_counter.py 27-44 on a text made of passages and other pieces: a
\* passage counts what the tokenizer says, every other piece one token
text_tokens(text) ==
    IF text = <<>> THEN 0
    ELSE (IF Head(text) \in DOMAIN tokenizer THEN count_tokens(Head(text)) ELSE 1)
         + text_tokens(Tail(text))

RECURSIVE history_lines(_)
\* app.py 280: "\n".join of the lines "role: content" of the history
history_lines(history) ==
    IF history = <<>> THEN <<>>
    ELSE <<history[1].role, ": ">> \o history[1].content
         \o (IF Len(history) > 1 THEN <<"\n">> ELSE <<>>) \o history_lines(Tail(history))

\* app.py 278-281
query_expansion_prompt(history, q) == history_lines(history) \o <<"\nuser: ">> \o q

RECURSIVE content_tokens(_)
\* app.py 372-373: the tokens of the contents of a list of messages
content_tokens(list) ==
    IF list = <<>> THEN 0 ELSE text_tokens(list[1].content) + content_tokens(Tail(list))

RECURSIVE chunk_tokens_sum(_)
\* app.py 322: sum(count_tokens(chunk) for chunk in chunks)
chunk_tokens_sum(list) ==
    IF list = <<>> THEN 0 ELSE count_tokens(Head(list)) + chunk_tokens_sum(Tail(list))

vars == <<tokenizer, messages, last_user_query, last_model_response, pc, query,
          conversation_history, expanded_queries, query_tokens, queries, i,
          results, j, all_chunks, current_tokens, chunks, chat_messages,
          full_response, yielded, response, firstSeen, lookupLog, embedLog,
          completionLog, failedAt, lastResp, lookupFailure, turnStart, wouldFail,
          boot, collection, content_file, metadata_file, now, content, gc_result,
          addLog, bootLog, chunking, chunked, session_state, chat_state,
          app_password, openai_api_key, gate, entries, stale, nQueries,
          total_processed_tokens, total_input_tokens, total_output_tokens,
          total_conversation_tokens, total_rag_context_tokens, turns_begun>>

\* what no step of a turn writes
process == <<boot, collection, content_file, metadata_file, now, content, gc_result,
             addLog, bootLog>>
chunker == <<chunking, chunked>>
login == <<session_state, chat_state, app_password, openai_api_key, gate, entries, stale>>
fixed == <<tokenizer, wouldFail, nQueries, process, chunker, login>>
\* The token tallies are write-only: process_message adds to them and the
\* sidebar shows them, and nothing else of the program reads them. The
\* specifications that are not about them leave them out, which is to hold
\* them at their initial value; SpecTally counts.
tallies == <<total_processed_tokens, total_input_tokens, total_output_tokens,
             total_conversation_tokens, total_rag_context_tokens, turns_begun>>
stored == <<fixed, messages, last_user_query, last_model_response>>
session == <<stored, tallies>>
expansion == <<query, conversation_history, expanded_queries, query_tokens, lastResp,
               turnStart>>
retrieval == <<queries, i, results, j, all_chunks, current_tokens, firstSeen,
               lookupLog, embedLog, lookupFailure>>
streaming == <<chat_messages, full_response, yielded, response, completionLog, failedAt>>

\* no call of chunk_text is under way
NoChunking ==
    /\ chunking = [tokens |-> <<>>, max_tokens |-> CHUNK_MAX_TOKENS,
                   overlap_tokens |-> CHUNK_OVERLAP_TOKENS]
    /\ chunked = [returned |-> FALSE, chunks |-> <<>>]

(* --------------------------- the password gate ------------------------ *)
\* app.py 30-32: the SHA-256 digest of the text
make_hash(password) == <<"sha256", password>>

\* a check of the key that lets every text through
validate_openai_key_unchecked(api_key, answer) == TRUE

\* app.py 34-45: the key is valid when listing the models succeeds
validate_openai_key(api_key, answer) == answer = "ok"

\* a dict without keys, del d[key] and d[key] = val on a dict
EmptyDict == [k \in {} |-> TRUE]
Del(d, key) == [k \in (DOMAIN d) \ {key} |-> d[k]]
Put(d, key, val) == [k \in (DOMAIN d) \cup {key} |-> IF k = key THEN val ELSE d[k]]

\* app.py 47-70: the callback of the password input; how it left, the
\* session state and the key the process uses afterwards
password_entered(ss, input_text, app_pw, key, answer) ==
    IF make_hash(input_text) = make_hash(app_pw)
    THEN [branch |-> "password", key |-> key,
          state |-> Put(Put(ss, "password_correct", TRUE),
                        "password_hash", make_hash(input_text))]
    ELSE IF validate_openai_key(input_text, answer)
    THEN [branch |-> "key", key |-> input_text,
          state |-> Put(Put(Put(ss, "password_correct", TRUE),
                            "using_custom_api_key", TRUE),
                        "custom_api_key", input_text)]
    ELSE [branch |-> "neither", key |-> key,
          state |-> Put(Del(ss, "password_hash"), "password_correct", FALSE)]

\* the session holds a password_hash that is not the hash of the app password
StaleHash(ss, app_pw) ==
    /\ "password_hash" \in DOMAIN ss
    /\ ss["password_hash"] # make_hash(app_pw)

\* app.py 72-97: what check_password returns and the session state it leaves
check_password(ss, app_pw) ==
    IF "password_hash" \in DOMAIN ss /\ ss["password_hash"] = make_hash(app_pw)
    THEN [returned |-> TRUE, state |-> ss]
    ELSE LET s1 == IF StaleHash(ss, app_pw) THEN Del(ss, "password_hash") ELSE ss
         IN  IF "password_correct" \notin DOMAIN s1 THEN [returned |-> FALSE, state |-> s1]
             ELSE IF ~s1["password_correct"] THEN [returned |-> FALSE, state |-> s1]
             ELSE [returned |-> TRUE, state |-> s1]

\* the session of the other specifications: the app password was entered
\* and the script has run past the gate
SignedIn ==
    /\ session_state = [password_correct |-> TRUE, password_hash |-> make_hash("pw1")]
    /\ chat_state = "initialised"
    /\ app_password = "pw1"
    /\ openai_api_key = "sk-env"
    /\ gate = "open"
    /\ entries = <<[text |-> "pw1", password |-> "pw1", answer |-> "error"]>>
    /\ stale = FALSE

\* what the specification at hand is not about
Background == NoChunking /\ SignedIn /\ nQueries = N_QUERIES

\* the process is up: the cached VectorStore and ChatBot exist
Running ==
    /\ boot = "ready"
    /\ collection = Collection(EMB_DIM, {0, 1})
    /\ content_file = File(<<"page v1">>)
    /\ metadata_file = Metadata(0)
    /\ now = 0
    /\ content = <<>>
    /\ gc_result = NoCall
    /\ addLog = <<>>
    /\ bootLog = [found |-> NoCollection, count |-> 0]

\* nothing has been said and the ChatBot has served no turn
\* app.py 122-132
ZeroTallies ==
    /\ total_processed_tokens = 0
    /\ total_input_tokens = 0
    /\ total_output_tokens = 0
    /\ total_conversation_tokens = 0
    /\ total_rag_context_tokens = 0
    /\ turns_begun = 0

FreshSession ==
    /\ messages = <<>>
    /\ last_user_query = <<>>
    /\ last_model_response = <<>>
    /\ ZeroTallies

\* the locals of process_message, get_relevant_chunks and chat_stream before
\* a call, and the history variables of a turn
NoLocals ==
    /\ query = <<>>
    /\ conversation_history = <<>>
    /\ expanded_queries = JsonList(<<>>)
    /\ query_tokens = ZeroUsage
    /\ queries = <<>>
    /\ i = 1
    /\ results = <<>>
    /\ j = 1
    /\ all_chunks = <<>>
    /\ current_tokens = 0
    /\ chunks = <<>>
    /\ full_response = <<>>
    /\ yielded = <<>>
    /\ response = <<>>
    /\ firstSeen = <<>>
    /\ lookupLog = <<>>
    /\ embedLog = <<>>
    /\ completionLog = <<>>
    /\ failedAt = "none"
    /\ lastResp = NoResponse
    /\ lookupFailure = "none"
    /\ turnStart = <<>>

\* no turn is running and nothing has been said
NoTurn ==
    /\ FreshSession
    /\ pc = "idle"
    /\ chat_messages = <<>>
    /\ NoLocals

Init ==
    /\ Background
    /\ tokenizer \in TokenTables
    /\ wouldFail = 0
    /\ NoTurn
    /\ Running

(* ------------------- app.process_message: expansion ------------------- *)
\* the user submits a query: app.py 263-281 and 399-404, the tallies apart
SubmitCore(max_turns) ==
    /\ pc = "idle"
    /\ Len(messages) < 2 * max_turns
    /\ query' = <<QueryPool[(Len(messages) \div 2) + 1]>>
    /\ conversation_history' = IF Len(messages) > 0 THEN Front(messages) ELSE <<>>
    /\ turnStart' = messages
    /\ pc' = "expand"
    /\ UNCHANGED <<stored, expanded_queries, query_tokens, lastResp, chunks, retrieval,
                   streaming>>

SubmitWithin(max_turns) == SubmitCore(max_turns) /\ UNCHANGED tallies

Submit == SubmitWithin(MaxTurns)

\* app.py 289-297: the call of QueryExpander.generate, the expansion service
\* answering with one of responses, the tallies apart
ExpandCore(responses) ==
    /\ pc = "expand"
    /\ \E resp \in responses :
          LET out == generate(query[1], resp, nQueries)
          IN  /\ expanded_queries' = out.queries
              /\ query_tokens' = out.usage
              /\ lastResp' = resp
    /\ pc' = "gate"
    /\ UNCHANGED <<stored, query, conversation_history, turnStart, chunks,
                   retrieval, streaming>>

ExpandFrom(responses) == ExpandCore(responses) /\ UNCHANGED tallies

Expand == ExpandFrom(ExpanderResponses(query[1]))

\* a gate that only asks for a non-empty list
has_any_queries(eq, q) == Len(eq.items) >= 1

\* a gate that only asks for something else than [query]
has_other_queries(eq, q) == eq # JsonList(<<q>>)

\* app.py 301
has_meaningful_queries(eq, q) == Len(eq.items) > 1 /\ eq # JsonList(<<q>>)

\* app.py 303-315 and 336-338, and the entry of get_relevant_chunks (220-232)
\* the original query looked up after the expansions
FanOutOriginalLast(q, eq) == eq.items \o <<q>>

\* app.py 232: [query] + expanded_queries
FanOut(q, eq) == <<q>> \o eq.items

Gate ==
    /\ pc = "gate"
    /\ IF has_meaningful_queries(expanded_queries, query[1])
       THEN IF expanded_queries.kind = "list"
            THEN /\ queries' = FanOut(query[1], expanded_queries)
                 /\ pc' = "lookup"
            ELSE \* [query] + expanded_queries raises TypeError
                 /\ queries' = queries
                 /\ pc' = "raised"
       ELSE /\ queries' = queries
            /\ pc' = "prompt"
    /\ i' = 1
    /\ all_chunks' = <<>>
    /\ current_tokens' = 0
    /\ chunks' = <<>>
    /\ lastResp' = NoResponse
    /\ UNCHANGED <<session, query, conversation_history, expanded_queries, query_tokens,
                   turnStart, results, j, firstSeen, lookupLog, embedLog, lookupFailure,
                   streaming>>

(* ------------------------- get_relevant_chunks ------------------------ *)
RECURSIVE DedupAppend(_, _)
\* the first occurrences, in order, of seen followed by more
DedupAppend(seen, more) ==
    IF more = <<>> THEN seen
    ELSE DedupAppend(IF Contains(seen, Head(more)) THEN seen ELSE Append(seen, Head(more)),
                     Tail(more))

\* a lookup failure swallowed: the turn goes on with the passages so far
LookupSwallowed ==
    /\ chunks' = all_chunks
    /\ pc' = "prompt"
    /\ UNCHANGED <<results, j, firstSeen>>

\* app.py 233-236: nothing catches what VectorStore.query raises, so the
\* exception leaves get_relevant_chunks and process_message
LookupRaises ==
    /\ pc' = "raised"
    /\ UNCHANGED <<results, j, firstSeen, chunks>>

\* VectorStore.query (database.py 112-118): the embedding call
\* (embeddings.py 34-42), then the index lookup; either may raise, and the
\* index answers with one of lists
LookupIn(lists) ==
    /\ pc = "lookup"
    /\ i <= Len(queries)
    /\ lookupLog' = Append(lookupLog, <<queries[i], K>>)
    /\ embedLog' = Append(embedLog, queries[i])
    /\ \/ /\ lookupFailure' = "embedding"
          /\ LookupRaises
       \/ /\ lookupFailure' = "index"
          /\ LookupRaises
       \/ \E r \in lists :
             /\ results' = r
             /\ j' = 1
             /\ firstSeen' = DedupAppend(firstSeen, r)
             /\ pc' = "pack"
             /\ UNCHANGED <<lookupFailure, chunks>>
    /\ UNCHANGED <<session, expansion, queries, i, all_chunks, current_tokens, streaming>>

Lookup == LookupIn(ResultLists(K))

\* app.py 233-236 against an index whose answers are fixed in advance: the
\* lookup raises exactly when it is the one the index refuses
DeterministicLookup ==
    /\ Lookup
    /\ (lookupFailure' # "none") = (i = wouldFail)

\* a dedupe that only remembers the chunk accepted last
AlreadySeenLastOnly(chunk, accepted) ==
    Len(accepted) > 0 /\ accepted[Len(accepted)] = chunk

\* app.py 241
AlreadySeen(chunk, accepted) == Contains(accepted, chunk)

\* a budget test made on the running total before the chunk is added
ExceedsBudgetBeforeAdding(running, chunk_tokens) == running > MAX_CONTEXT_TOKENS

\* a budget test that refuses the chunk that fills the budget exactly
ExceedsBudgetAtLimit(running, chunk_tokens) ==
    running + chunk_tokens >= MAX_CONTEXT_TOKENS

\* app.py 246
ExceedsBudget(running, chunk_tokens) == running + chunk_tokens > MAX_CONTEXT_TOKENS

\* skip-and-continue: the chunk that does not fit is passed over
BudgetSkip ==
    /\ j' = j + 1
    /\ UNCHANGED <<i, pc, all_chunks, current_tokens, chunks>>

\* app.py 246-249: the chunk does not fit, get_relevant_chunks returns
BudgetStop ==
    /\ chunks' = all_chunks
    /\ pc' = "prompt"
    /\ UNCHANGED <<i, j, all_chunks, current_tokens>>

\* a chunk put in front of the list instead of at its end
AcceptChunkInFront(accepted, chunk) == <<chunk>> \o accepted

\* app.py 251
AcceptChunk(accepted, chunk) == Append(accepted, chunk)

\* app.py 239-252: one iteration of the inner loop, or its end (254-256)
PackChunk ==
    /\ pc = "pack"
    /\ IF j > Len(results)
       THEN /\ i' = i + 1
            /\ pc' = "lookup"
            /\ UNCHANGED <<j, all_chunks, current_tokens, chunks>>
       ELSE LET chunk == results[j]
                chunk_tokens == count_tokens(chunk)
            IN  IF AlreadySeen(chunk, all_chunks)
                THEN /\ j' = j + 1
                     /\ UNCHANGED <<i, pc, all_chunks, current_tokens, chunks>>
                ELSE IF ExceedsBudget(current_tokens, chunk_tokens)
                THEN BudgetStop
                ELSE /\ all_chunks' = AcceptChunk(all_chunks, chunk)
                     /\ current_tokens' = current_tokens + chunk_tokens
                     /\ j' = j + 1
                     /\ UNCHANGED <<i, pc, chunks>>
    /\ UNCHANGED <<session, expansion, queries, results, firstSeen, lookupLog, embedLog,
                   lookupFailure, streaming>>

\* app.py 258-261: the outer loop is exhausted
ReturnChunks ==
    /\ pc = "lookup"
    /\ i > Len(queries)
    /\ chunks' = all_chunks
    /\ pc' = "prompt"
    /\ UNCHANGED <<session, expansion, retrieval, streaming>>

(* --------------- app.process_message: prompt and answer --------------- *)
TextItem(t) == [kind |-> "text", text |-> t, usage |-> ZeroUsage]
UsageItem(u) == [kind |-> "usage", text |-> <<>>, usage |-> u]

\* the locals of the finished call of get_relevant_chunks are gone
ChunkLocalsGone ==
    /\ queries' = <<>>
    /\ i' = 1
    /\ results' = <<>>
    /\ j' = 1
    /\ all_chunks' = <<>>
    /\ current_tokens' = 0
    /\ firstSeen' = <<>>

\* app.py 317-344, the tallies apart
BuildMessagesCore ==
    /\ pc = "prompt"
    /\ LET context == IF chunks # <<>> THEN Join(chunks, "\n\n") ELSE <<>>
       IN  chat_messages' = <<Msg("system", generate_system_prompt(context)),
                              Msg("user", query)>>
    /\ response' = <<>>
    /\ pc' = "cs_start"
    /\ ChunkLocalsGone
    /\ UNCHANGED <<stored, expansion, chunks, lookupLog, embedLog, lookupFailure,
                   full_response, yielded, completionLog, failedAt>>

BuildMessages == BuildMessagesCore /\ UNCHANGED tallies

\* a completion failure outside the try: it leaves chat_stream
CompletionRaisesUncaught == pc' = "raised"

(* ---------------------- message dicts and lists ----------------------- *)
\* A message is a dict, and a list of messages holds references to dicts:
\* an assignment to d['content'] is seen through every list that holds d.
\* The dicts live in two places: those of st.session_state.messages and
\* those created for the list of the running turn.
Ref(heap, at) == [heap |-> heap, at |-> at]
Heap == [session |-> messages, turn |-> chat_messages]
Deref(h, ref) == h[ref.heap][ref.at]
Store(h, ref, v) == [h EXCEPT ![ref.heap][ref.at].content = v]
Contents(h, refs) == [n \in 1..Len(refs) |-> Deref(h, refs[n])]

\* the list handed to chat_stream holding the dicts that end the session
\* history instead of new ones
SessionDicts ==
    IF Len(messages) >= Len(chat_messages)
    THEN [n \in 1..Len(chat_messages) |->
            Ref("session", Len(messages) - Len(chat_messages) + n)]
    ELSE [n \in 1..Len(chat_messages) |-> Ref("turn", n)]

\* app.py 341-344: the list handed to chat_stream is built from dict
\* displays, so it holds new dicts and none of the session history
MessageDicts == [n \in 1..Len(chat_messages) |-> Ref("turn", n)]

\* ChatBot.process_message (chat.py 89-101): messages.copy() is shallow, so
\* the assignment to messages_with_context[-1]['content'] writes the dict
\* the caller's list holds too
process_message(user_query, h, refs) ==
    Store(h, refs[Len(refs)],
          user_query \o <<"\n\nRelevant Building Code Context:\n",
                          "Relevant building code context would be retrieved here">>)

\* chat.py 141 and 193: everything chat_stream does is inside the try
CompletionRaises == pc' = "cs_error"

\* chat.py 141-144; messages[-1] of an empty list raises IndexError
CsStart ==
    /\ pc = "cs_start"
    /\ LET refs == MessageDicts
           last == Deref(Heap, refs[Len(refs)])
       IN  IF Len(refs) = 0
           THEN /\ CompletionRaises
                /\ UNCHANGED <<last_user_query, messages, chat_messages>>
           ELSE /\ pc' = "cs_precall"
                /\ IF last.role = "user"
                   THEN LET h == process_message(last.content, Heap, refs)
                        IN  /\ last_user_query' = last.content
                            /\ messages' = h.session
                            /\ chat_messages' = h.turn
                   ELSE UNCHANGED <<last_user_query, messages, chat_messages>>
    /\ UNCHANGED <<fixed, tallies, last_model_response, expansion, chunks, retrieval,
                   full_response, yielded, response, completionLog, failedAt>>

\* a call of the completion service with the list as it stands
Call(kind) == [call |-> kind, messages |-> Contents(Heap, MessageDicts)]

\* chat.py 147-153: the 1-token call that measures the input
CsPreCall ==
    /\ pc = "cs_precall"
    /\ completionLog' = Append(completionLog, Call("count"))
    /\ \/ pc' = "cs_streamcall" /\ failedAt' = failedAt
       \/ failedAt' = "precall" /\ CompletionRaises
    /\ UNCHANGED <<session, expansion, chunks, retrieval, chat_messages, full_response,
                   yielded, response>>

\* chat.py 156-164: the streaming call
CsStreamCall ==
    /\ pc = "cs_streamcall"
    /\ completionLog' = Append(completionLog, Call("stream"))
    /\ full_response' = <<>>
    /\ \/ pc' = "cs_streaming" /\ failedAt' = failedAt
       \/ failedAt' = "streamcall" /\ CompletionRaises
    /\ UNCHANGED <<session, expansion, chunks, retrieval, chat_messages, yielded, response>>

\* chat.py 165-169 and app.py 357-362: one content delta is yielded and the
\* app adds it to response
CsDelta ==
    /\ pc = "cs_streaming"
    /\ Len(full_response) < MaxDeltas
    /\ LET delta == DeltaPool[Len(full_response) + 1]
       IN  /\ full_response' = Append(full_response, delta)
           /\ yielded' = Append(yielded, TextItem(<<delta>>))
           /\ response' = Append(response, delta)
    /\ UNCHANGED <<session, expansion, chunks, retrieval, chat_messages, pc,
                   completionLog, failedAt>>

\* chat.py 165: the stream breaks while it is iterated
CsStreamFail ==
    /\ pc = "cs_streaming"
    /\ CompletionRaises
    /\ failedAt' = "midstream"
    /\ UNCHANGED <<session, expansion, chunks, retrieval, chat_messages, full_response,
                   yielded, response, completionLog>>

\* chat.py 165-172: the stream ends
CsStreamEnd ==
    /\ pc = "cs_streaming"
    /\ last_model_response' = full_response
    /\ pc' = "cs_final"
    /\ UNCHANGED <<fixed, tallies, messages, last_user_query, expansion, chunks, retrieval,
                   streaming>>

\* chat.py 175-188: the non-streaming call for the usage, and its yield
CsFinal ==
    /\ pc = "cs_final"
    /\ completionLog' = Append(completionLog, Call("final"))
    /\ \/ /\ yielded' = Append(yielded, UsageItem(ServiceUsage))
          /\ pc' = "cs_update"
          /\ failedAt' = failedAt
       \/ /\ CompletionRaises
          /\ failedAt' = "final"
          /\ yielded' = yielded
    /\ UNCHANGED <<session, expansion, chunks, retrieval, chat_messages, full_response,
                   response>>

\* ChatBot.update_chat_history (chat.py 117-123)
update_chat_history(h, refs) ==
    IF last_user_query # <<>> /\ last_model_response # <<>>
    THEN Store(Store(h, refs[Len(refs) - 1], last_user_query),
               refs[Len(refs)], last_model_response)
    ELSE h

\* chat.py 191, reached when the caller asks for the item after the usage;
\* messages[-2] of a list of one message raises IndexError inside the try
CsUpdate ==
    /\ pc = "cs_update"
    /\ LET refs == MessageDicts
           h == update_chat_history(Heap, refs)
       IN  IF last_user_query # <<>> /\ last_model_response # <<>> /\ Len(refs) < 2
           THEN /\ CompletionRaises
                /\ UNCHANGED <<messages, chat_messages>>
           ELSE /\ pc' = "append"
                /\ messages' = h.session
                /\ chat_messages' = h.turn
    /\ UNCHANGED <<fixed, tallies, last_user_query, last_model_response, expansion, chunks,
                   retrieval, full_response, yielded, response, completionLog, failedAt>>

\* f"Error: {str(e)}"
ErrorText == <<"Error: ", "str(e)">>

\* chat.py 193-195 and app.py 357-362
CsError ==
    /\ pc = "cs_error"
    /\ yielded' = yielded \o <<TextItem(ErrorText), UsageItem(ZeroUsage)>>
    /\ response' = response \o ErrorText
    /\ pc' = "append"
    /\ UNCHANGED <<session, expansion, chunks, retrieval, chat_messages, full_response,
                   completionLog, failedAt>>

\* the locals of a finished call of process_message are gone
LocalsReset ==
    /\ query' = <<>>
    /\ conversation_history' = <<>>
    /\ expanded_queries' = JsonList(<<>>)
    /\ query_tokens' = ZeroUsage
    /\ ChunkLocalsGone
    /\ chunks' = <<>>
    /\ chat_messages' = <<>>
    /\ full_response' = <<>>
    /\ yielded' = <<>>
    /\ response' = <<>>
    /\ lookupLog' = <<>>
    /\ embedLog' = <<>>
    /\ completionLog' = <<>>
    /\ failedAt' = "none"
    /\ lastResp' = NoResponse
    /\ lookupFailure' = "none"
    /\ turnStart' = <<>>

\* the history written from what the shared ChatBot has stored
AppendStoredTurn ==
    /\ pc = "append"
    /\ messages' = messages \o <<Msg("user", last_user_query),
                                  Msg("assistant", last_model_response)>>
    /\ pc' = "idle"
    /\ LocalsReset
    /\ UNCHANGED <<fixed, tallies, last_user_query, last_model_response>>

\* app.py 380-382
AppendTurnCore ==
    /\ pc = "append"
    /\ messages' = messages \o <<Msg("user", query), Msg("assistant", response)>>
    /\ pc' = "idle"
    /\ LocalsReset
    /\ UNCHANGED <<fixed, last_user_query, last_model_response>>

AppendTurn == AppendTurnCore /\ UNCHANGED tallies

\* an exception left process_message: the script run ends with the error
\* shown, and the session waits for the next input
Rerun ==
    /\ pc = "raised"
    /\ pc' = "idle"
    /\ LocalsReset
    /\ UNCHANGED session

\* app.py 187-189 and 194
ClearChatCore ==
    /\ pc = "idle"
    /\ messages' = <<>>
    /\ UNCHANGED <<fixed, last_user_query, last_model_response, pc, expansion, chunks,
                   retrieval, streaming>>

\* app.py 187-194, with something to clear
ClearChat == messages # <<>> /\ ClearChatCore /\ UNCHANGED tallies

Next ==
    \/ Submit
    \/ Expand
    \/ Gate
    \/ Lookup
    \/ PackChunk
    \/ ReturnChunks
    \/ BuildMessages
    \/ CsStart
    \/ CsPreCall
    \/ CsStreamCall
    \/ CsDelta
    \/ CsStreamFail
    \/ CsStreamEnd
    \/ CsFinal
    \/ CsUpdate
    \/ CsError
    \/ AppendTurn
    \/ Rerun
    \/ ClearChat

Spec == Init /\ [][Next]_vars

(* ------------------- a session of several turns ----------------------- *)
\* number of turns of one session
MaxSessionTurns == 2

\* the expansion service is down, or answers as asked
UsualResponses ==
    {[status |-> "error", json |-> JsonList(<<>>), usage |-> FALSE],
     [status |-> "ok", json |-> JsonList(SubSeq(ExpPool, 1, N_QUERIES)), usage |-> TRUE]}

\* what a lookup returns from an index that holds at most one passage
SmallIndexResults == {<<>>, <<PassagePool[1]>>}

SubmitInSession == SubmitWithin(MaxSessionTurns)
ExpandUsual == ExpandFrom(UsualResponses)
LookupSmallIndex == LookupIn(SmallIndexResults)

NextHistory ==
    \/ SubmitInSession
    \/ ExpandUsual
    \/ Gate
    \/ LookupSmallIndex
    \/ PackChunk
    \/ ReturnChunks
    \/ BuildMessages
    \/ CsStart
    \/ CsPreCall
    \/ CsStreamCall
    \/ CsDelta
    \/ CsStreamFail
    \/ CsStreamEnd
    \/ CsFinal
    \/ CsUpdate
    \/ CsError
    \/ AppendTurn
    \/ Rerun

SpecHistory == Init /\ [][NextHistory]_vars

(* ------------------------- the token tallies --------------------------- *)
\* number of calls of process_message, failed ones included
MaxSubmits == 3

\* app.py 269 and 283-286
SubmitCounted ==
    /\ turns_begun < MaxSubmits
    /\ SubmitCore(MaxSessionTurns)
    /\ turns_begun' = turns_begun + 1
    /\ total_rag_context_tokens' = 0
    /\ LET query_expansion_tokens ==
               text_tokens(query_expansion_prompt(conversation_history', query'))
       IN  /\ total_processed_tokens' = total_processed_tokens + query_expansion_tokens
           /\ total_input_tokens' = total_input_tokens + query_expansion_tokens
    /\ UNCHANGED <<total_output_tokens, total_conversation_tokens>>

\* app.py 289-297
ExpandCounted ==
    /\ ExpandCore(UsualResponses)
    /\ total_processed_tokens' = total_processed_tokens + query_tokens'.completion_tokens
    /\ total_output_tokens' = total_output_tokens + query_tokens'.completion_tokens
    /\ UNCHANGED <<total_input_tokens, total_conversation_tokens,
                   total_rag_context_tokens, turns_begun>>

\* app.py 317-350
BuildMessagesCounted ==
    /\ BuildMessagesCore
    /\ total_rag_context_tokens' =
          IF chunks # <<>> THEN total_rag_context_tokens + chunk_tokens_sum(chunks)
          ELSE total_rag_context_tokens
    /\ LET chat_input == chat_messages'[1].content \o <<"\n">> \o chat_messages'[2].content
           chat_input_tokens == text_tokens(chat_input)
       IN  /\ total_processed_tokens' = total_processed_tokens + chat_input_tokens
           /\ total_input_tokens' = total_input_tokens + chat_input_tokens
    /\ UNCHANGED <<total_output_tokens, total_conversation_tokens, turns_begun>>

\* a count of the response that leaves the output total alone
CountResponseProcessedOnly ==
    /\ total_processed_tokens' = total_processed_tokens + text_tokens(response)
    /\ UNCHANGED <<total_output_tokens, total_conversation_tokens>>

\* app.py 365-376
CountResponse ==
    /\ LET response_tokens == text_tokens(response)
       IN  /\ total_processed_tokens' = total_processed_tokens + response_tokens
           /\ total_output_tokens' = total_output_tokens + response_tokens
    /\ total_conversation_tokens' =
          text_tokens(generate_system_prompt(<<>>)) + content_tokens(messages)
          + text_tokens(query) + text_tokens(response)

\* app.py 365-382
AppendTurnCounted ==
    /\ CountResponse
    /\ AppendTurnCore
    /\ UNCHANGED <<total_input_tokens, total_rag_context_tokens, turns_begun>>

\* app.py 187-194
ClearChatCounted ==
    /\ ClearChatCore
    /\ total_processed_tokens' = 0
    /\ total_conversation_tokens' = 0
    /\ total_rag_context_tokens' = 0
    /\ total_input_tokens' = 0
    /\ total_output_tokens' = 0
    /\ UNCHANGED turns_begun

\* a session with its tallies and its Clear Chat History button
NextTally ==
    \/ SubmitCounted
    \/ ExpandCounted
    \/ Gate
    \/ LookupSmallIndex
    \/ PackChunk
    \/ ReturnChunks
    \/ BuildMessagesCounted
    \/ CsStart
    \/ CsPreCall
    \/ CsStreamCall
    \/ CsDelta
    \/ CsStreamFail
    \/ CsStreamEnd
    \/ CsFinal
    \/ CsUpdate
    \/ CsError
    \/ AppendTurnCounted
    \/ Rerun
    \/ ClearChatCounted

SpecTally == Init /\ [][NextTally]_vars

(* ------------- a second session on the cached ChatBot ----------------- *)
\* Another session runs its turns on the same ChatBot at the same time. Its
\* own locals and history are out of this session's reach; what its
\* chat_stream does to state both sessions reach are the two assignments to
\* the ChatBot's fields, which may fall between any two steps of this
\* session.
PeerQuery == <<"peer query">>
PeerAnswers == {<<>>, <<"peer answer">>}

\* the other session's chat_stream at chat.py 143-144 (process_message, 90)
PeerStoresQuery ==
    /\ last_user_query' = PeerQuery
    /\ UNCHANGED <<fixed, tallies, messages, last_model_response, pc, expansion, chunks, retrieval,
                   streaming>>

\* the other session's chat_stream at chat.py 172
PeerStoresResponse ==
    /\ \E answer \in PeerAnswers : last_model_response' = answer
    /\ UNCHANGED <<fixed, tallies, messages, last_user_query, pc, expansion, chunks, retrieval,
                   streaming>>

NextConcurrent ==
    \/ NextHistory
    \/ PeerStoresQuery
    \/ PeerStoresResponse

SpecConcurrent == Init /\ [][NextConcurrent]_vars

(* ----------------- chat_stream on any message list -------------------- *)
\* number of messages of the list chat_stream is called with
MaxMessages == 2

Roles == {"system", "user", "assistant"}
MessageLists ==
    UNION {[1..n -> {Msg(r, <<"text">>) : r \in Roles}] : n \in 0..MaxMessages}

\* chat_stream is called with some list of new dicts, on a ChatBot that may
\* have served turns before
InitStream ==
    /\ Background
    /\ tokenizer = TokenTable(1)
    /\ wouldFail = 0
    /\ Running
    /\ messages = <<>>
    /\ ZeroTallies
    /\ last_user_query \in {<<>>, <<"earlier query">>}
    /\ last_model_response \in {<<>>, <<"earlier answer">>}
    /\ pc = "cs_start"
    /\ chat_messages \in MessageLists
    /\ NoLocals

NextStream ==
    \/ CsStart
    \/ CsPreCall
    \/ CsStreamCall
    \/ CsDelta
    \/ CsStreamFail
    \/ CsStreamEnd
    \/ CsFinal
    \/ CsUpdate
    \/ CsError

SpecStream == InitStream /\ [][NextStream]_vars

(* ------------------------ the content cache --------------------------- *)
\* what the steps of the scraper and of the process start-up leave alone
turn == <<tokenizer, wouldFail, nQueries, tallies, messages, last_user_query,
          last_model_response, pc,
          expansion, chunks, retrieval, streaming>>
\* and what neither they nor the steps of a turn write
others == <<chunker, login>>

\* WebScraper.get_content(force_update) (scraper.py 41-81), the site
\* answering the fetch, if one is made, in any of its ways
GetContent(force_update) ==
    \E web \in WebResponses :
        LET r == get_content(force_update, content_file, metadata_file, now, web)
        IN  /\ content_file' = r.file
            /\ metadata_file' = r.metadata
            /\ gc_result' = [outcome |-> r.outcome, text |-> r.text, fetches |-> r.fetches,
                             web |-> r.web, force |-> force_update,
                             file |-> content_file, metadata |-> metadata_file]

\* a caller asks the scraper for the content
CallGetContent ==
    /\ boot = "scraper"
    /\ \E force_update \in BOOLEAN : GetContent(force_update)
    /\ UNCHANGED <<turn, others, boot, collection, now, content, addLog, bootLog>>

\* half a day passes
AdvanceClock ==
    /\ boot = "scraper"
    /\ now < MaxClock
    /\ now' = now + 1
    /\ gc_result' = NoCall
    /\ UNCHANGED <<turn, others, boot, collection, content_file, metadata_file, content, addLog,
                   bootLog>>

\* a WebScraper exists; the data directory holds what an earlier process
\* (or a deployment) left there
InitCache ==
    /\ Background
    /\ tokenizer = TokenTable(1)
    /\ wouldFail = 0
    /\ NoTurn
    /\ boot = "scraper"
    /\ collection = NoCollection
    /\ content_file \in {NoFile, File(<<>>)} \cup {File(TextWrite(page)) : page \in WebPages}
    /\ metadata_file \in {NoMetadata, Metadata(0)}
    /\ now = 0
    /\ content = <<>>
    /\ gc_result = NoCall
    /\ addLog = <<>>
    /\ bootLog = [found |-> NoCollection, count |-> 0]

NextCache ==
    \/ CallGetContent
    \/ AdvanceClock

SpecCache == InitCache /\ [][NextCache]_vars

(* ------------------------ the process start-up ------------------------- *)
\* the first script run of a process calls initialize_chatbot (app.py
\* 112-116), which calls initialize_vector_store (app.py 102-105)
StartProcess ==
    /\ boot = "down"
    /\ boot' = "vs_init"
    /\ UNCHANGED <<turn, others, collection, content_file, metadata_file, now, content, gc_result,
                   addLog, bootLog>>

\* VectorStore.__init__ (database.py 38-52); ChatBot.__init__ follows
VectorStoreInit ==
    /\ boot = "vs_init"
    /\ LET r == VectorStoreInitOn(collection)
       IN  /\ collection' = r.collection
           /\ boot' = IF r.raised THEN "vs_failed" ELSE "cb_content"
           /\ bootLog' = [found |-> collection, count |-> Cardinality(r.collection.ids)]
    /\ addLog' = <<>>
    /\ UNCHANGED <<turn, others, content_file, metadata_file, now, content, gc_result>>

\* chat.py 38: content = self.scraper.get_content()
CbGetContent ==
    /\ boot = "cb_content"
    /\ GetContent(FALSE)
    /\ content' = gc_result'.text
    /\ boot' = IF gc_result'.outcome = "raised" THEN "cb_failed" ELSE "cb_store"
    /\ UNCHANGED <<turn, others, collection, now, addLog, bootLog>>

\* VectorStore.add_chunks (database.py 66-93) of n chunks: the ids are
\* chunk_0 .. chunk_{n-1} whatever the collection holds
add_chunks(c, n) == [c EXCEPT !.ids = c.ids \cup ChunkIds(n)]

\* chat.py 39-42: process_content divides by the number of chunks, the
\* embedding call may raise
CbUpdateStore ==
    /\ boot = "cb_store"
    /\ IF IsEmpty(collection)
       THEN LET n == Len(process_content(content))
            IN  \/ /\ n > 0
                   /\ collection' = add_chunks(collection, n)
                   /\ addLog' = Append(addLog,
                                       [count |-> Cardinality(collection.ids), n |-> n,
                                        collided |-> collection.ids \cap ChunkIds(n) # {}])
                   /\ boot' = "ready"
                \/ /\ boot' = "cb_failed"
                   /\ UNCHANGED <<collection, addLog>>
       ELSE /\ boot' = "ready"
            /\ UNCHANGED <<collection, addLog>>
    /\ UNCHANGED <<turn, others, content_file, metadata_file, now, content, gc_result, bootLog>>

\* st.cache_resource keeps no failed call: the next script run calls
\* initialize_vector_store again
RetryVectorStore ==
    /\ boot = "vs_failed"
    /\ boot' = "vs_init"
    /\ UNCHANGED <<turn, others, collection, content_file, metadata_file, now, content, gc_result,
                   addLog, bootLog>>

\* the next script run after a failed ChatBot.__init__ constructs a ChatBot
\* again, on the cached VectorStore
RetryChatBot ==
    /\ boot = "cb_failed"
    /\ boot' = "cb_content"
    /\ content' = <<>>
    /\ addLog' = <<>>
    /\ bootLog' = [bootLog EXCEPT !.count = Cardinality(collection.ids)]
    /\ UNCHANGED <<turn, others, collection, content_file, metadata_file, now, gc_result>>

\* the process ends; the data directory stays
Restart ==
    /\ boot \in {"ready", "vs_failed", "cb_failed"}
    /\ boot' = "down"
    /\ content' = <<>>
    /\ gc_result' = NoCall
    /\ UNCHANGED <<turn, others, collection, content_file, metadata_file, now, addLog, bootLog>>

\* while the process is down the index directory is replaced, for instance
\* by one an earlier version of the program wrote
IndexReplaced ==
    /\ boot = "down"
    /\ \E c \in PersistedCollections : c # collection /\ collection' = c
    /\ UNCHANGED <<turn, others, boot, content_file, metadata_file, now, content, gc_result,
                   addLog, bootLog>>

InitBoot ==
    /\ Background
    /\ tokenizer = TokenTable(1)
    /\ wouldFail = 0
    /\ NoTurn
    /\ boot = "down"
    /\ collection \in PersistedCollections
    /\ \/ content_file = NoFile /\ metadata_file = NoMetadata
       \/ content_file = File(<<"page v1">>) /\ metadata_file = Metadata(0)
    /\ now = 0
    /\ content = <<>>
    /\ gc_result = NoCall
    /\ addLog = <<>>
    /\ bootLog = [found |-> NoCollection, count |-> 0]

NextBoot ==
    \/ StartProcess
    \/ VectorStoreInit
    \/ CbGetContent
    \/ CbUpdateStore
    \/ RetryVectorStore
    \/ RetryChatBot
    \/ Restart
    \/ IndexReplaced

SpecBoot == InitBoot /\ [][NextBoot]_vars

(* ----------------------------- chunk_text ----------------------------- *)
MaxTokens == 7
MaxChunkTokens == 4
MaxOverlapTokens == 5

\* the encoded text: n tokens, each told from the others by its index
Encoded(n) == [t \in 1..n |-> t - 1]

\* chunk_text is called (token_counter.py 46-96)
ChunkText ==
    /\ ~chunked.returned
    /\ chunked' = [returned |-> TRUE,
                   chunks |-> chunk_text(chunking.tokens, chunking.max_tokens,
                                         chunking.overlap_tokens)]
    /\ UNCHANGED <<turn, process, login, chunking>>

\* the caller drops the chunks and picks its next text and arguments
NextText ==
    /\ chunked.returned
    /\ \E n \in 0..MaxTokens, m \in 1..MaxChunkTokens, o \in 0..MaxOverlapTokens :
          chunking' = [tokens |-> Encoded(n), max_tokens |-> m, overlap_tokens |-> o]
    /\ chunked' = [returned |-> FALSE, chunks |-> <<>>]
    /\ UNCHANGED <<turn, process, login>>

InitChunk ==
    /\ tokenizer = TokenTable(1)
    /\ wouldFail = 0
    /\ NoTurn
    /\ Running
    /\ SignedIn
    /\ nQueries = N_QUERIES
    /\ \E n \in 0..MaxTokens, m \in 1..MaxChunkTokens, o \in 0..MaxOverlapTokens :
          chunking = [tokens |-> Encoded(n), max_tokens |-> m, overlap_tokens |-> o]
    /\ chunked = [returned |-> FALSE, chunks |-> <<>>]

NextChunk ==
    \/ ChunkText
    \/ NextText

SpecChunk == InitChunk /\ [][NextChunk]_vars

(* --------------------------- the password gate ------------------------ *)
MaxEntries == 3

Passwords == {"pw1", "pw2"}
ValidKeys == {"sk-valid"}
EntryPool == Passwords \cup ValidKeys \cup {"guess"}

\* what client.models.list() does with the text as key: a valid key is
\* accepted unless the service cannot be reached
ServiceAnswers(text) == IF text \in ValidKeys THEN {"ok", "error"} ELSE {"error"}

\* a script run without a turn (app.py 99-146 and main): check_password,
\* then st.stop() or the initialisation of the chat state
ScriptRun ==
    LET r == check_password(session_state, app_password)
    IN  /\ session_state' = r.state
        /\ gate' = IF r.returned THEN "open" ELSE "prompt"
        /\ chat_state' = IF r.returned THEN "initialised" ELSE chat_state
        /\ stale' = (stale \/ StaleHash(session_state, app_password))
        /\ UNCHANGED <<turn, process, chunker, app_password, openai_api_key, entries>>

\* the user submits the password input: the callback runs (app.py 47-70)
Enter ==
    /\ gate = "prompt"
    /\ Len(entries) < MaxEntries
    /\ \E text \in EntryPool : \E answer \in ServiceAnswers(text) :
          LET r == password_entered(session_state, text, app_password, openai_api_key,
                                    answer)
          IN  /\ session_state' = r.state
              /\ openai_api_key' = r.key
              /\ entries' = Append(entries, [text |-> text, password |-> app_password,
                                              answer |-> answer])
              /\ stale' = (stale /\ r.branch = "neither")
    /\ gate' = "entered"
    /\ UNCHANGED <<turn, process, chunker, chat_state, app_password>>

\* the deployment changes APP_PASSWORD
ChangePassword ==
    /\ \E p \in Passwords : p # app_password /\ app_password' = p
    /\ UNCHANGED <<turn, process, chunker, session_state, chat_state, openai_api_key,
                   gate, entries, stale>>

\* a browser opens a session
InitGate ==
    /\ tokenizer = TokenTable(1)
    /\ wouldFail = 0
    /\ NoTurn
    /\ Running
    /\ NoChunking
    /\ nQueries = N_QUERIES
    /\ session_state = EmptyDict
    /\ chat_state = "absent"
    /\ app_password \in Passwords
    /\ openai_api_key = "sk-env"
    /\ gate = "start"
    /\ entries = <<>>
    /\ stale = FALSE

NextGate ==
    \/ ScriptRun
    \/ Enter
    \/ ChangePassword

SpecGate == InitGate /\ [][NextGate]_vars

(* ------------- expansion and gate for any number of queries ------------ *)
MaxQueries == 4

\* one turn up to the gate, process_message asking generate for any number
\* of queries from 1 on
InitExpansion ==
    /\ NoChunking
    /\ SignedIn
    /\ nQueries \in 1..MaxQueries
    /\ tokenizer = TokenTable(1)
    /\ wouldFail = 0
    /\ NoTurn
    /\ Running

NextExpansion ==
    \/ Submit
    \/ Expand
    \/ Gate

SpecExpansion == InitExpansion /\ [][NextExpansion]_vars

(* ---------- get_relevant_chunks against a deterministic index ---------- *)
\* one turn up to the return of get_relevant_chunks; at most one of the
\* five lookups is refused by the index
InitRefine ==
    /\ Background
    /\ tokenizer \in TokenTables
    /\ wouldFail \in 0..(N_QUERIES + 1)
    /\ NoTurn
    /\ Running

NextRefine ==
    \/ Submit
    \/ Expand
    \/ Gate
    \/ DeterministicLookup
    \/ PackChunk
    \/ ReturnChunks
    \/ Rerun

SpecRefine == InitRefine /\ [][NextRefine]_vars

(* ====================================================================== *)
(*                      Properties of context assembly                    *)
(* ====================================================================== *)
RECURSIVE SumTokens(_)
SumTokens(list) ==
    IF list = <<>> THEN 0 ELSE count_tokens(Head(list)) + SumTokens(Tail(list))

RECURSIVE FittingPrefix(_, _)
\* the longest prefix of list whose cumulative token count is <= budget
FittingPrefix(list, budget) ==
    IF list = <<>> \/ count_tokens(Head(list)) > budget THEN <<>>
    ELSE <<Head(list)>> \o FittingPrefix(Tail(list), budget - count_tokens(Head(list)))

NoDuplicates(list) ==
    \A a, b \in 1..Len(list) : list[a] = list[b] => a = b

\* list holds passages of traversal only, each once, and p stands before q
\* in list exactly when p's first occurrence in traversal precedes q's
InOrderOf(list, traversal) ==
    list = SelectSeq(traversal, LAMBDA p : Contains(list, p))

IsPrefix(a, b) == Len(a) <= Len(b) /\ SubSeq(b, 1, Len(a)) = a

\* C1: hard stop. What get_relevant_chunks returns is exactly the longest
\* prefix of the first-occurrence-deduplicated flattening of the lookup
\* results (in query order, each in rank order) whose cumulative token
\* count is at most MAX_CONTEXT_TOKENS; nothing after the first passage that
\* does not fit is included.
C1_HardStopPrefix ==
    pc = "prompt" => chunks = FittingPrefix(firstSeen, MAX_CONTEXT_TOKENS)

\* the list was returned on a passage that did not fit while a passage seen
\* after it in the traversal would have fitted
C1_Witness ==
    /\ pc = "prompt"
    /\ Len(chunks) >= 1
    /\ \E n \in (Len(chunks) + 2)..Len(firstSeen) :
          SumTokens(chunks) + count_tokens(firstSeen[n]) <= MAX_CONTEXT_TOKENS

\* C2: budget invariant. In every state current_tokens is the sum of the token
\* counts of all_chunks and at most MAX_CONTEXT_TOKENS, and the returned list
\* is within the budget.
C2_BudgetInvariant ==
    /\ current_tokens = SumTokens(all_chunks)
    /\ current_tokens <= MAX_CONTEXT_TOKENS
    /\ SumTokens(chunks) <= MAX_CONTEXT_TOKENS

\* the very first passage alone exceeds the budget and the result is empty
C2_Witness ==
    /\ pc = "prompt"
    /\ firstSeen # <<>>
    /\ count_tokens(firstSeen[1]) > MAX_CONTEXT_TOKENS
    /\ chunks = <<>>

\* C3: no duplicates. all_chunks and the returned list never hold the same
\* content twice, and the step that meets an already accepted passage leaves
\* the list and the running total alone and goes on with the next passage,
\* whatever the passage's token count.
C3_NoDuplicates ==
    [][/\ NoDuplicates(all_chunks')
       /\ NoDuplicates(chunks')
       /\ (pc = "pack" /\ j <= Len(results) /\ Contains(all_chunks, results[j]))
            => /\ all_chunks' = all_chunks
               /\ current_tokens' = current_tokens
               /\ pc' = "pack"
               /\ j' = j + 1]_vars

\* a duplicate whose token count exceeds what is left of the budget has just
\* been passed over: it is in all_chunks, but not as the chunk accepted last
C3_Witness ==
    /\ pc = "pack"
    /\ j > 1
    /\ Contains(all_chunks, results[j - 1])
    /\ all_chunks[Len(all_chunks)] # results[j - 1]
    /\ current_tokens + count_tokens(results[j - 1]) > MAX_CONTEXT_TOKENS

\* C4: order preservation. The passages of all_chunks stand in the order of
\* their first occurrences in the traversal, and while get_relevant_chunks
\* runs a passage once placed is neither moved nor removed.
C4_OrderPreserved ==
    [][/\ InOrderOf(all_chunks', firstSeen')
       /\ (pc \in {"lookup", "pack"} => IsPrefix(all_chunks, all_chunks'))
       /\ (pc' = "prompt" => chunks' = all_chunks')]_vars

\* all five lookups ran and the result holds several passages, the last of
\* them first seen in the results of an expansion
C4_Witness ==
    /\ pc = "pack"
    /\ i = Len(queries)
    /\ j > 1
    /\ Len(all_chunks) >= 2
    /\ all_chunks[Len(all_chunks)] = results[j - 1]
    /\ Len(firstSeen) = Len(all_chunks)
    /\ \A m \in 1..(j - 2) : results[m] # results[j - 1]

(* ====================================================================== *)
(*                 Properties of expansion and of the turn                *)
(* ====================================================================== *)
\* the failure outcomes of the expansion service call
ExpansionFailed(resp) ==
    \/ resp.status = "error"
    \/ resp.json.kind = "invalid"
    \/ resp.json.kind = "list" /\ Len(resp.json.items) # N_QUERIES
    \/ resp.status = "ok" /\ ~resp.usage

\* C5: expansion fallback. After every failure outcome of the expansion
\* service call (service error, invalid JSON, a list of another length than
\* n_queries, no usage record) generate has returned to process_message, and
\* what it returned is exactly [query] with an all-zero usage.
C5_ExpansionFallback ==
    (pc = "gate" /\ ExpansionFailed(lastResp))
        => /\ expanded_queries = JsonList(query)
           /\ query_tokens = ZeroUsage

\* n_queries = 4 and the service returned a list of 3 items
C5_Witness ==
    /\ pc = "gate"
    /\ lastResp.status = "ok"
    /\ lastResp.json.kind = "list"
    /\ Len(lastResp.json.items) = N_QUERIES - 1
    /\ lastResp.usage
    /\ expanded_queries = JsonList(query)

\* C6: meaningful-expansion gate. In a turn in which generate returned
\* exactly [query], no lookup and no embedding call is issued, every message
\* list sent to the completion service carries the system prompt of the
\* empty context, and the turn does reach the completion service.
C6_GateSuppressesRetrieval ==
    (pc \notin {"idle", "expand"} /\ expanded_queries = JsonList(query))
        => /\ lookupLog = <<>>
           /\ embedLog = <<>>
           /\ pc \notin {"lookup", "pack", "raised"}
           /\ \A n \in 1..Len(completionLog) :
                 completionLog[n].messages[1] = Msg("system", generate_system_prompt(<<>>))
           /\ (pc = "append" => Len(completionLog) >= 1)

\* a fallback turn has gone through the completion calls
C6_Witness ==
    /\ pc = "append"
    /\ expanded_queries = JsonList(query)
    /\ Len(completionLog) >= 1
    /\ lookupLog = <<>>

\* C7 as stated: whenever retrieval has run in a turn with a meaningful
\* expansion, exactly one lookup was issued for each query of
\* [query] + expanded_queries, in that order, each with the same k.
C7_OneLookupPerQuery ==
    (pc = "prompt" /\ Len(expanded_queries.items) > 1)
        => lookupLog = [n \in 1..(Len(expanded_queries.items) + 1) |->
                            <<(query \o expanded_queries.items)[n], K>>]

\* C7 as amended: the lookups issued in a turn are, in order, the first m
\* queries of [query] + expanded_queries, one lookup each, each with k = 3;
\* m is the full count when get_relevant_chunks returns without having
\* refused a passage, and may be smaller when the budget stop returns early
\* or the retrieval raises.
C7_LookupsArePrefix ==
    query # <<>>
        => LET expected == query \o expanded_queries.items
           IN  /\ Len(lookupLog) <= Len(expected)
               /\ \A n \in 1..Len(lookupLog) : lookupLog[n] = <<expected[n], K>>
               /\ (pc = "prompt" /\ Len(expanded_queries.items) > 1 /\ chunks = firstSeen)
                    => Len(lookupLog) = Len(expected)

\* with 4 expansions retrieval has run 5 lookups and found passages
C7_Witness ==
    /\ pc = "prompt"
    /\ Len(expanded_queries.items) = N_QUERIES
    /\ Len(lookupLog) = N_QUERIES + 1
    /\ Len(chunks) >= 1

\* C8: retrieval failure is fatal to the turn. Once an embedding call or an
\* index lookup has failed, the exception has left process_message: no
\* completion call is made, no message list is built from the passages found
\* so far, and the session's messages are what they were when the turn began
\* and stay so when the script run ends.
C8_RetrievalFailureFatal ==
    [][/\ lookupFailure' # "none"
            => /\ pc' = "raised"
               /\ completionLog' = <<>>
               /\ chat_messages' = <<>>
               /\ chunks' = <<>>
               /\ messages' = turnStart'
       /\ pc = "raised" => (pc' = "idle" /\ messages' = messages)]_vars

\* a lookup failed after passages of earlier lookups had been accepted
C8_Witness ==
    /\ pc = "raised"
    /\ lookupFailure # "none"
    /\ Len(lookupLog) >= 2
    /\ Len(all_chunks) >= 1

\* C9: every message list passed to the completion service is the system
\* message generate_system_prompt(context) followed by a user message whose
\* content is exactly the query.
C9_TwoMessagesQueryUntouched ==
    \A n \in 1..Len(completionLog) :
        LET sent == completionLog[n].messages
            context == IF chunks # <<>> THEN Join(chunks, "\n\n") ELSE <<>>
        IN  /\ Len(sent) = 2
            /\ sent[1] = Msg("system", generate_system_prompt(context))
            /\ sent[2] = Msg("user", query)

\* C10: completion failure is surfaced inline. Wherever the completion
\* service fails, no exception leaves chat_stream; the last two items
\* yielded are a text starting with "Error: " and an all-zero usage record;
\* the app's response is what was streamed followed by that text, and the
\* app appends it to the session's messages as the assistant's answer.
C10_CompletionFailureInline ==
    [][/\ failedAt' # "none" => pc' \in {"cs_error", "append"}
       /\ (failedAt' # "none" /\ pc' = "append")
            => /\ Len(yielded') >= 2
               /\ yielded'[Len(yielded') - 1].kind = "text"
               /\ Head(yielded'[Len(yielded') - 1].text) = "Error: "
               /\ yielded'[Len(yielded')] = UsageItem(ZeroUsage)
               /\ response' = full_response' \o yielded'[Len(yielded') - 1].text
       /\ pc = "append"
            => messages' = messages \o <<Msg("user", query), Msg("assistant", response)>>]_vars

\* the history ends with an answer that broke off after one delta
C10_Witness ==
    /\ pc = "idle"
    /\ Len(messages) >= 2
    /\ messages[Len(messages)].role = "assistant"
    /\ Len(messages[Len(messages)].content) > Len(ErrorText)
    /\ SubSeq(messages[Len(messages)].content, 2, Len(ErrorText) + 1) = ErrorText

(* ====================================================================== *)
(*                    Properties of the expander's output                 *)
(* ====================================================================== *)
\* C11: strict output-shape validation. Whatever generate has returned to
\* process_message is a list, of exactly n_queries strings or the single
\* element list [query]; a JSON object or a JSON string the service answered
\* with has been replaced by the fallback, so the only exceptions that end a
\* turn are those of a lookup.
C11_StrictShape ==
    pc \notin {"idle", "expand"}
        => /\ expanded_queries.kind = "list"
           /\ (Len(expanded_queries.items) = N_QUERIES \/ expanded_queries = JsonList(query))
           /\ (pc = "raised" => lookupFailure # "none")

(* ====================================================================== *)
(*              get_relevant_chunks and the two-phase design              *)
(* ====================================================================== *)
RECURSIVE AssembleFrom(_, _, _, _)
\* the single pass of the Context Assembler over the flattened candidate
\* sets: skip what was accepted before, stop at the first passage that does
\* not fit
AssembleFrom(accepted, running_total, flat, max_tokens) ==
    IF flat = <<>> THEN accepted
    ELSE IF Contains(accepted, Head(flat))
    THEN AssembleFrom(accepted, running_total, Tail(flat), max_tokens)
    ELSE IF running_total + count_tokens(Head(flat)) > max_tokens THEN accepted
    ELSE AssembleFrom(Append(accepted, Head(flat)),
                      running_total + count_tokens(Head(flat)), Tail(flat), max_tokens)

assemble(flat, max_tokens) == AssembleFrom(<<>>, 0, flat, max_tokens)

\* what the lookups get_relevant_chunks did not issue could have returned
Unissued ==
    IF Len(lookupLog) = Len(queries) THEN {<<>>} ELSE ResultLists(K)

\* get_relevant_chunks has returned a list
Returned == pc = "prompt" /\ lookupLog # <<>>

\* C12 as stated: when every lookup would succeed, the list returned by
\* get_relevant_chunks is what the two-phase design assembles from the
\* candidate sets of all the queries; and the turn fails in the one exactly
\* when it fails in the other, that is when some lookup would fail.
C12_RefinesAndAgreesOnFailure ==
    /\ (Returned /\ wouldFail = 0)
          => \A rest \in Unissued :
                chunks = assemble(firstSeen \o rest, MAX_CONTEXT_TOKENS)
    /\ Returned => wouldFail = 0
    /\ lookupFailure # "none" => wouldFail # 0

\* C12 as amended: the lists are equal when every lookup would succeed,
\* whatever the lookups that were never issued would have returned; a turn
\* that fails in get_relevant_chunks fails in the two-phase design, at the
\* same lookup; and get_relevant_chunks returns a list although some lookup
\* would fail only if the budget stop came before that lookup was issued.
C12_RefinesTwoPhase ==
    /\ (Returned /\ wouldFail = 0)
          => \A rest \in Unissued :
                chunks = assemble(firstSeen \o rest, MAX_CONTEXT_TOKENS)
    /\ lookupFailure # "none" => (wouldFail # 0 /\ wouldFail = Len(lookupLog))
    /\ (Returned /\ wouldFail # 0)
          => /\ Len(lookupLog) < wouldFail
             /\ chunks # firstSeen

\* no lookup would fail, the budget stop returned before the last queries
\* were looked up, and passages had been accepted
C12_Witness ==
    /\ Returned
    /\ wouldFail = 0
    /\ Len(lookupLog) < Len(queries)
    /\ Len(chunks) >= 1
    /\ Len(firstSeen) > Len(chunks) + 1

(* ====================================================================== *)
(*                    Properties of the session history                   *)
(* ====================================================================== *)
RECURSIVE TextOf(_)
\* the text items of a stream, concatenated
TextOf(items) ==
    IF items = <<>> THEN <<>>
    ELSE (IF Head(items).kind = "text" THEN Head(items).text ELSE <<>>) \o TextOf(Tail(items))

\* C13: the history is append-only. No step of a turn before its last
\* changes st.session_state.messages: not the expansion, not the in-place
\* edits of ChatBot.process_message and update_chat_history inside
\* chat_stream. The last step appends exactly two entries to what the
\* history was when the turn began: the user's query as typed, then the
\* assistant's answer, which is the text chat_stream streamed.
C13_HistoryAppendOnly ==
    [][IF pc = "append"
       THEN /\ messages = turnStart
            /\ response = TextOf(yielded)
            /\ messages' = turnStart \o <<Msg("user", query), Msg("assistant", response)>>
       ELSE messages' = messages]_vars

\* in the second turn of a session update_chat_history has overwritten both
\* dicts of the turn's list with the stored query and answer
C13_Witness ==
    /\ pc = "append"
    /\ Len(messages) = 2
    /\ chat_messages[1].content = last_user_query
    /\ chat_messages[2].content = last_model_response
    /\ chat_messages[1].content # messages[1].content

\* C14: in every turn the conversation history handed to
\* QueryExpander.generate is the whole of the session's messages as they
\* stood when the query was typed: every user and assistant message of the
\* completed turns, the answer of the turn before included.
C14_ExpanderSeesWholeHistory ==
    pc # "idle" => conversation_history = turnStart

(* ====================================================================== *)
(*                  Two sessions on the cached ChatBot                    *)
(* ====================================================================== *)
PeerAtoms == {"peer query", "peer answer"}
OwnText(text) == \A n \in 1..Len(text) : text[n] \notin PeerAtoms

\* C15: whatever the other session writes to ChatBot.last_user_query and
\* last_model_response, and whenever it does, every message list this
\* session's turn sends to the completion service is made of its own context
\* and query alone, and nothing the other session wrote is in the text
\* streamed to this session or in this session's history.
C15_NoCrossTalk ==
    /\ \A n \in 1..Len(completionLog) :
          LET context == IF chunks # <<>> THEN Join(chunks, "\n\n") ELSE <<>>
              dicts == <<Msg("system", generate_system_prompt(context)), Msg("user", query)>>
              own == [session |-> <<>>, turn |-> dicts]
          IN  completionLog[n].messages =
                 process_message(query, own, <<Ref("turn", 1), Ref("turn", 2)>>).turn
    /\ OwnText(response)
    /\ \A n \in 1..Len(yielded) : OwnText(yielded[n].text)
    /\ \A n \in 1..Len(messages) : OwnText(messages[n].content)

\* the other session's query and answer were in the ChatBot's fields when
\* this session's chat_stream ran update_chat_history, which wrote them into
\* the dicts of this session's list
C15_Witness ==
    /\ pc = "append"
    /\ response # <<>>
    /\ chat_messages[1].content = PeerQuery
    /\ chat_messages[2].content = <<"peer answer">>

(* ====================================================================== *)
(*                      The stream of chat_stream                         *)
(* ====================================================================== *)
\* C16: whatever list chat_stream is called with and whatever the
\* completion service does, what has been yielded is text items followed by
\* at most one usage record, nothing follows a usage record, and when the
\* generator is exhausted the last item is the one usage record.
C16_StreamShape ==
    /\ \A n \in 1..Len(yielded) : yielded[n].kind = "usage" => n = Len(yielded)
    /\ pc = "append" => (yielded # <<>> /\ yielded[Len(yielded)].kind = "usage")

(* ====================================================================== *)
(*                   Properties of the process start-up                   *)
(* ====================================================================== *)
\* C17: index dimensionality guard. When VectorStore.__init__ has completed,
\* the collection building_code exists and its dimension metadata is 1536;
\* a collection found with dimension 1536 is kept as it was, documents
\* included; a collection found with another dimension or with none has
\* been replaced by a new, empty one.
C17_DimensionGuard ==
    boot = "cb_content"
        => /\ collection.exists
           /\ collection.has_dimension
           /\ collection.dimension = EMB_DIM
           /\ LET found == bootLog.found
              IN  IF found.exists /\ found.has_dimension /\ found.dimension = EMB_DIM
                  THEN collection = found
                  ELSE collection = Collection(EMB_DIM, {})

\* a collection of another dimension that held documents was found and has
\* been replaced by an empty one
C17_Witness ==
    /\ boot = "cb_content"
    /\ bootLog.found.exists
    /\ bootLog.found.has_dimension
    /\ bootLog.found.dimension # EMB_DIM
    /\ bootLog.found.ids # {}
    /\ collection = Collection(EMB_DIM, {})

\* a ChatBot.__init__ has ended, with or without an exception
InitEnded == boot \in {"ready", "cb_failed"}

\* C18 as stated: in every ChatBot initialisation add_chunks is called if
\* and only if the collection held no document when the initialisation
\* began; no call of add_chunks adds to a collection that holds documents
\* or an id that is stored already; after the initialisation the collection
\* is non-empty if the corpus gave at least one chunk.
C18_IngestIffEmpty ==
    /\ InitEnded => ((addLog # <<>>) <=> (bootLog.count = 0))
    /\ \A n \in 1..Len(addLog) : addLog[n].count = 0 /\ ~addLog[n].collided
    /\ (boot = "ready" /\ Len(process_content(content)) >= 1) => collection.ids # {}

\* C18 as amended: add_chunks is called at most once in an initialisation
\* and only on a collection that holds no document, so no id collides; an
\* initialisation that completes has called it exactly when the collection
\* was empty, and leaves the collection non-empty if the corpus gave at
\* least one chunk; an initialisation that fails (get_content or the
\* embedding call raised) has not called it, empty collection or not.
C18_IngestOnlyIfEmpty ==
    /\ Len(addLog) <= 1
    /\ \A n \in 1..Len(addLog) : addLog[n].count = 0 /\ ~addLog[n].collided
    /\ boot = "ready" => ((addLog # <<>>) <=> (bootLog.count = 0))
    /\ boot = "cb_failed" => addLog = <<>>
    /\ (boot = "ready" /\ Len(process_content(content)) >= 1) => collection.ids # {}

\* a restart found documents of another dimension: the index was reset and
\* the corpus ingested again, under the ids the old documents had
C18_Witness ==
    /\ boot = "ready"
    /\ bootLog.found.ids # {}
    /\ ~DimensionMatches(bootLog.found)
    /\ Len(addLog) = 1
    /\ addLog[1].n = 2
    /\ collection.ids = ChunkIds(2)

(* ====================================================================== *)
(*                    Properties of the content cache                     *)
(* ====================================================================== *)
\* metadata and content file exist, the last scrape is less than 30 days
\* old at time t and the cached content is not empty
CacheFresh(file, metadata, t) ==
    /\ metadata.exists
    /\ file.exists
    /\ t - metadata.last_scrape < 2 * DAYS_THRESHOLD
    /\ file.text # <<>>

\* C19: content cache. A call get_content(force_update=False) on a fresh
\* cache makes no fetch, leaves the cache alone and returns the stored
\* content unchanged. Every other call fetches exactly once; if it returns,
\* the content file holds the fetched content, last_scrape is the time of
\* the call, and a get_content() made right after it returns the same
\* content without a fetch.
C19_CacheHitOrOneFetch ==
    gc_result.outcome # "none"
        => IF ~gc_result.force /\ CacheFresh(gc_result.file, gc_result.metadata, now)
           THEN /\ gc_result.fetches = 0
                /\ gc_result.outcome = "returned"
                /\ gc_result.text = gc_result.file.text
                /\ content_file = gc_result.file
                /\ metadata_file = gc_result.metadata
           ELSE /\ gc_result.fetches = 1
                /\ gc_result.outcome = "returned"
                      => /\ content_file = File(gc_result.text)
                         /\ metadata_file = Metadata(now)
                         /\ \A web \in WebResponses :
                               LET next == get_content(FALSE, content_file, metadata_file,
                                                       now, web)
                               IN  /\ next.outcome = "returned"
                                   /\ next.fetches = 0
                                   /\ next.text = gc_result.text

\* C20: a failed fetch leaves the cache untouched. Whenever get_content
\* fetches and the scrape raises or its response holds no markdown,
\* get_content raises, and whenever get_content raises the content file and
\* the metadata are what they were before the call.
C20_FailedFetchKeepsCache ==
    /\ (gc_result.fetches = 1
          /\ (gc_result.web.status = "error" \/ gc_result.web.markdown = <<>>))
          => gc_result.outcome = "raised"
    /\ gc_result.outcome = "raised"
          => /\ gc_result.fetches = 1
             /\ content_file = gc_result.file
             /\ metadata_file = gc_result.metadata

\* the cache was 30 days old, the site answered without markdown, and the
\* old content and the old time of scrape are still there
C20_Witness ==
    /\ gc_result.outcome = "raised"
    /\ gc_result.web.status = "ok"
    /\ ~gc_result.force
    /\ content_file.exists
    /\ content_file.text # <<>>
    /\ metadata_file.exists
    /\ now - metadata_file.last_scrape >= 2 * DAYS_THRESHOLD

(* ====================================================================== *)
(*                         Properties of chunk_text                       *)
(* ====================================================================== *)
\* the overlap chunk_text works with (token_counter.py 72-73)
EffectiveOverlap ==
    IF chunking.overlap_tokens >= chunking.max_tokens THEN chunking.max_tokens \div 4
    ELSE chunking.overlap_tokens

\* the token indices a returned chunk holds
TokensOf(c) ==
    {chunked.chunks[c].chunk_tokens[t] : t \in 1..Len(chunked.chunks[c].chunk_tokens)}

\* C21: chunk_text returns an overlapping cover.  Chunk i (from 0) starts at
\* token i * (max_tokens - overlap) and holds the tokens that follow it in
\* order; no chunk holds more than max_tokens tokens and token_count is
\* the number of tokens it holds; every chunk but the last holds exactly
\* max_tokens; the last chunk ends at token n; every token index lies in
\* some chunk; consecutive chunks share exactly overlap tokens; every chunk
\* after the first holds a token the one before it does not; and a text of
\* no tokens gives no chunks.
C21_OverlappingCover ==
    chunked.returned =>
        LET cs == chunked.chunks
            n == Len(chunking.tokens)
            step == chunking.max_tokens - EffectiveOverlap
        IN  /\ \A c \in 1..Len(cs) :
                  /\ cs[c].start = (c - 1) * step
                  /\ cs[c].chunk_tokens =
                        [t \in 1..Len(cs[c].chunk_tokens) |-> chunking.tokens[cs[c].start + t]]
                  /\ Len(cs[c].chunk_tokens) <= chunking.max_tokens
                  /\ cs[c].token_count = Len(cs[c].chunk_tokens)
                  /\ c < Len(cs) => Len(cs[c].chunk_tokens) = chunking.max_tokens
                  /\ c = Len(cs) => cs[c].start + Len(cs[c].chunk_tokens) = n
                  /\ c < Len(cs) =>
                        Cardinality(TokensOf(c) \cap TokensOf(c + 1)) = EffectiveOverlap
                  /\ c > 1 => TokensOf(c) \ TokensOf(c - 1) # {}
            /\ \A t \in 0..(n - 1) : \E c \in 1..Len(cs) : t \in TokensOf(c)
            /\ n = 0 <=> cs = <<>>

\* a call returned three chunks or more that overlap, the last one short
C21_Witness ==
    /\ chunked.returned
    /\ Len(chunked.chunks) >= 3
    /\ EffectiveOverlap >= 1
    /\ chunked.chunks[Len(chunked.chunks)].token_count < chunking.max_tokens

\* a call with an overlap no smaller than max_tokens returned two chunks or more
C21_WitnessReplaced ==
    /\ chunked.returned
    /\ chunking.overlap_tokens >= chunking.max_tokens
    /\ Len(chunked.chunks) >= 2

(* ====================================================================== *)
(*                      Properties of the password gate                   *)
(* ====================================================================== *)
\* the entry was the app password of the moment, or a key the service accepted
EntryValid(en) == make_hash(en.text) = make_hash(en.password) \/ en.answer = "ok"

\* C22: the password gate. check_password has returned True only if some
\* earlier entry of the session hashed equal to the app password or passed
\* the validation of the API key; and after an entry that is neither,
\* password_correct is False, password_hash is absent, check_password
\* returns False and no chat state exists, no turn is under way and nothing
\* has been said.
C22_PasswordGate ==
    /\ gate = "open" => \E k \in 1..Len(entries) : EntryValid(entries[k])
    /\ (entries # <<>> /\ ~EntryValid(entries[Len(entries)]))
          => /\ "password_correct" \in DOMAIN session_state
             /\ ~session_state["password_correct"]
             /\ "password_hash" \notin DOMAIN session_state
             /\ gate # "open"
             /\ chat_state = "absent"
             /\ pc = "idle"
             /\ messages = <<>>

\* two wrong entries were made, the second one the former app password, and
\* the script has stopped at the prompt again
C22_Witness ==
    /\ Len(entries) = 2
    /\ ~EntryValid(entries[1])
    /\ ~EntryValid(entries[2])
    /\ entries[2].text \in Passwords
    /\ gate = "prompt"

\* C24: stale-hash revocation. Once a script run has found the session's
\* password_hash different from the hash of the current APP_PASSWORD and
\* removed it, check_password does not return True for the session until a
\* valid password or a valid API key is entered.
C24_StaleHashRevokes == stale => gate # "open"

(* ====================================================================== *)
(*                         Properties of the gate                         *)
(* ====================================================================== *)
\* generate returned what the service answered, not the fallback
ExpansionSucceeded(resp, n) ==
    /\ resp.status = "ok"
    /\ resp.json.kind \notin {"invalid", "number"}
    /\ Len(resp.json.items) = n
    /\ resp.usage

\* C25: gate equivalence. At the gate, has_meaningful_queries is true
\* exactly when what generate returned has a length above 1, and the turn
\* enters retrieval (get_relevant_chunks is called) exactly when it is
\* true; so for n_queries >= 2 retrieval is entered if and only if the
\* expansion succeeded, and for n_queries = 1 it never is.
C25_GateEquivalence ==
    [][pc = "gate" =>
        LET meaningful == has_meaningful_queries(expanded_queries, query[1])
            entered == pc' \in {"lookup", "raised"}
        IN  /\ meaningful <=> Len(expanded_queries.items) > 1
            /\ entered <=> meaningful
            /\ nQueries >= 2 => (entered <=> ExpansionSucceeded(lastResp, nQueries))
            /\ nQueries = 1 => ~entered]_vars

\* n_queries = 1, the expansion succeeded with another query than the
\* original, and the turn went on without retrieval
C25_Witness ==
    /\ nQueries = 1
    /\ pc = "prompt"
    /\ expanded_queries.kind = "list"
    /\ expanded_queries # JsonList(query)
    /\ Len(expanded_queries.items) = 1
    /\ query_tokens = ServiceUsage
    /\ lookupLog = <<>>

(* ====================================================================== *)
(*                      Properties of the token tallies                   *)
(* ====================================================================== *)
\* the processed total is the sum of the two others, and none is negative
TalliesBalanced ==
    /\ total_processed_tokens = total_input_tokens + total_output_tokens
    /\ total_processed_tokens >= 0
    /\ total_input_tokens >= 0
    /\ total_output_tokens >= 0

\* a step that lowers none of the three totals
NoTallyLowered ==
    /\ total_processed_tokens' >= total_processed_tokens
    /\ total_input_tokens' >= total_input_tokens
    /\ total_output_tokens' >= total_output_tokens

\* a step of Clear Chat History that sets the three totals to 0
ClearedTogether ==
    /\ pc = "idle"
    /\ messages' = <<>>
    /\ total_processed_tokens' = 0
    /\ total_input_tokens' = 0
    /\ total_output_tokens' = 0

\* C23: the token tally invariant. Whenever a step leaves the session
\* between turns, also at the end of a turn that failed part-way and after
\* Clear Chat History, total_processed_tokens is total_input_tokens +
\* total_output_tokens and none of the three is negative; and no step lowers
\* any of them except Clear Chat History, which sets the three to 0
\* together.
C23_TallyInvariant ==
    [][/\ pc' = "idle" => TalliesBalanced'
       /\ NoTallyLowered \/ ClearedTogether]_vars

\* a turn whose expansion succeeded and whose retrieval failed has left its
\* counts, a later turn has been completed, and the session is between turns
C23_Witness ==
    /\ pc = "idle"
    /\ Len(messages) = 2
    /\ turns_begun >= 2
    /\ total_output_tokens > ServiceUsage.completion_tokens + text_tokens(messages[2].content)
    /\ total_processed_tokens = total_input_tokens + total_output_tokens

====
